---- MODULE Spec2Model ----
(***************************************************************************)
(* Model of the dealhunt scraper core: the validation / quality gate       *)
(* (BaseScraper.validateProduct), the reconciler (Product.upsert,          *)
(* Product.addPriceHistory and the persistence loop of scrape), and the    *)
(* selector resolver / healer with its pattern store (BaseScraper          *)
(* .smartExtract, .canHeal, SelectorHealer.healSelector, .updateConfidence).*)
(***************************************************************************)
EXTENDS Integers, Sequences, FiniteSets, TLC

VARIABLES
    \* ---- validator ----
    vin,            \* the candidate record handed to validateProduct
    vout,           \* what validateProduct returned ("pending" before the call)
    vagain,         \* what validateProduct returned for its own output
    \* ---- reconciler ----
    products,       \* table products, keyed by its UNIQUE column product_id
    price_history,  \* table price_history, in insertion order
    nextId,         \* next value of products.id (uuid_generate_v4, fresh per insert)
    run,            \* the scrape run in progress (persistence loop of scrape)
    last,           \* history variable: the last persistence call and its outcome
    upserts,        \* history variable: successful Product.upsert calls per product_id
    ops,            \* number of Product.upsert calls made so far (bounded)
    \* ---- selector resolver, healer and pattern store ----
    store,          \* the pattern store document (selector-patterns.json)
    inst,           \* the scraper instances: in-memory registry, cooldowns, position
    now,            \* Date.now(), in milliseconds since the process started watching
    healLog,        \* history variable: the heal attempts that reached the inference service
    ideal,          \* history variable: the document with every persisted mutation applied atomically
    lastWrite,      \* history variable: the last write of the document and what caused it
    lastCall,       \* history variable: how the last smartExtract call went on
    calls,          \* number of smartExtract calls made so far (bounded)
    \* ---- page orchestrator and multi-page driver ----
    drv,            \* the scrape run of one platform scraper: locals, position, history
    \* ---- title inferencer ----
    title,          \* the title handed to extractSpecsFromTitle
    tspecs,         \* what extractSpecsFromTitle returned ("pending" before the call)
    \* ---- scrape trigger of the HTTP server ----
    scraping,       \* the cache entries scraping:<platform>
    req             \* the POST /scrape/:platform requests: position, platform, answer

vars == <<vin, vout, vagain, products, price_history, nextId, run, last, upserts, ops,
          store, inst, now, healLog, ideal, lastWrite, lastCall, calls,
          drv, title, tspecs, scraping, req>>

valVars == <<vin, vout, vagain>>
recVars == <<products, price_history, nextId, run, last, upserts, ops>>
exVars  == <<store, inst, now, healLog, ideal, lastWrite, lastCall, calls>>
drvVars == <<drv>>
ttlVars == <<title, tspecs>>
srvVars == <<scraping, req>>

Max(a, b) == IF a >= b THEN a ELSE b
Min(a, b) == IF a <= b THEN a ELSE b

(***************************************************************************)
(* JavaScript values that reach numeric fields: a number, null, undefined  *)
(* or NaN.                                                                 *)
(***************************************************************************)
Num(n) == [k |-> "num", v |-> n]
Null   == [k |-> "null", v |-> 0]
Undef  == [k |-> "undef", v |-> 0]
NaNv   == [k |-> "nan", v |-> 0]

\* isNaN(x): Number(undefined) and NaN are NaN, Number(null) is 0
isNaN(x) == x.k \in {"nan", "undef"}
\* x === null
isNull(x) == x.k = "null"
\* the number a relational operator compares (null converts to 0)
ToNum(x) == IF x.k = "num" THEN x.v ELSE 0
\* x < n, x <= n, x > n: false whenever x converts to NaN
jsLt(x, n) == ~isNaN(x) /\ ToNum(x) < n
jsLe(x, n) == ~isNaN(x) /\ ToNum(x) <= n
jsGt(x, n) == ~isNaN(x) /\ ToNum(x) > n
\* !x for a numeric field: null, undefined, NaN and 0 are falsy
Falsy(x) == x.k # "num" \/ x.v = 0

\* Math.round(((o - c) / o) * 100) for o > 0 (round half up)
RoundPct(o, c) == ((o - c) * 200 + o) \div (2 * o)

(***************************************************************************)
(* A candidate record: the fields validateProduct reads.  specifications   *)
(* is a mapping (its set of keys) or missing; the title is a string of     *)
(* which only the length is read; image_url is a string or null.           *)
(***************************************************************************)
NoImage == "null"
SpecMap(keys) == [k |-> "map", keys |-> keys]
SpecMissing   == [k |-> "null", keys |-> {}]

PenaltyRating    == 15
PenaltyReviews   == 10
PenaltyNoSpecs   == 20
PenaltyFewSpecs  == 10
PenaltyDiscount  == 5
PenaltyImage     == 10
PenaltyTitle     == 10
MinSpecs         == 3
MinTitleLen      == 20
QualityGate      == 30
MaxDiscount      == 95
MaxRating        == 5
ReviewThreshold  == 1000000
ReviewCap        == 999999

\* calculateQualityScore without the short-title penalty
calculateQualityScoreNoTitle(p) ==
    LET s0 == 100
        s1 == IF Falsy(p.rating) THEN s0 - PenaltyRating ELSE s0
        s2 == IF p.review_count = Num(0) THEN s1 - PenaltyReviews ELSE s1
        s3 == IF p.specifications.k # "map" \/ Cardinality(p.specifications.keys) = 0
              THEN s2 - PenaltyNoSpecs ELSE s2
        s4 == IF Cardinality(p.specifications.keys) < MinSpecs
              THEN s3 - PenaltyFewSpecs ELSE s3
        s5 == IF p.discount_percent = Num(0) THEN s4 - PenaltyDiscount ELSE s4
        s6 == IF p.image_url = NoImage THEN s5 - PenaltyImage ELSE s5
    IN  Max(0, s6)

\* BaseScraper.calculateQualityScore
calculateQualityScore(p) ==
    LET s0 == 100
        s1 == IF Falsy(p.rating) THEN s0 - PenaltyRating ELSE s0
        s2 == IF p.review_count = Num(0) THEN s1 - PenaltyReviews ELSE s1
        s3 == IF p.specifications.k # "map" \/ Cardinality(p.specifications.keys) = 0
              THEN s2 - PenaltyNoSpecs ELSE s2
        s4 == IF Cardinality(p.specifications.keys) < MinSpecs
              THEN s3 - PenaltyFewSpecs ELSE s3
        s5 == IF p.discount_percent = Num(0) THEN s4 - PenaltyDiscount ELSE s4
        s6 == IF p.image_url = NoImage THEN s5 - PenaltyImage ELSE s5
        s7 == IF p.titleLen < MinTitleLen THEN s6 - PenaltyTitle ELSE s6
    IN  Max(0, s7)

None == [k |-> "none"]

\* price validation: original price missing/invalid becomes the current price
FixOriginal(p) ==
    IF isNaN(p.original_price) \/ isNull(p.original_price) \/ jsLt(p.original_price, 0)
    THEN [p EXCEPT !.original_price = p.current_price]
    ELSE p

\* SwapPrices that recomputes the discount but forgets to exchange the prices
SwapPricesDiscountOnly(p) ==
    IF p.original_price.v < p.current_price.v
    THEN [p EXCEPT !.discount_percent =
                        Num(RoundPct(p.current_price.v, p.original_price.v))]
    ELSE p

\* SwapPrices that exchanges the prices but keeps the supplied discount
SwapPricesKeepDiscount(p) ==
    IF p.original_price.v < p.current_price.v
    THEN [p EXCEPT !.original_price = p.current_price,
                   !.current_price = p.original_price]
    ELSE p

\* price validation: inverted prices are swapped and the discount recomputed
SwapPrices(p) ==
    IF p.original_price.v < p.current_price.v
    THEN [p EXCEPT !.original_price = p.current_price,
                   !.current_price = p.original_price,
                   !.discount_percent =
                        Num(RoundPct(p.current_price.v, p.original_price.v))]
    ELSE p

\* ClampDiscount without the upper bound
ClampDiscountNoCeiling(p) ==
    LET d0 == IF isNaN(p.discount_percent) \/ isNull(p.discount_percent)
              THEN Num(0) ELSE p.discount_percent
        d1 == IF d0.v < 0 THEN Num(0) ELSE d0
    IN  [p EXCEPT !.discount_percent = d1]

\* discount validation
ClampDiscount(p) ==
    LET d0 == IF isNaN(p.discount_percent) \/ isNull(p.discount_percent)
              THEN Num(0) ELSE p.discount_percent
        d1 == IF d0.v < 0 THEN Num(0) ELSE d0
        d2 == IF d1.v > MaxDiscount THEN Num(MaxDiscount) ELSE d1
    IN  [p EXCEPT !.discount_percent = d2]

\* FixRating that keeps a rating above the maximum
FixRatingUpperOpen(p) ==
    IF ~isNull(p.rating) /\ (isNaN(p.rating) \/ jsLt(p.rating, 0))
    THEN [p EXCEPT !.rating = Null]
    ELSE p

\* rating validation
FixRating(p) ==
    IF ~isNull(p.rating)
       /\ (isNaN(p.rating) \/ jsLt(p.rating, 0) \/ jsGt(p.rating, MaxRating))
    THEN [p EXCEPT !.rating = Null]
    ELSE p

\* review count validation
FixReviews(p) ==
    LET r0 == IF isNaN(p.review_count) \/ isNull(p.review_count) \/ jsLt(p.review_count, 0)
              THEN Num(0) ELSE p.review_count
        r1 == IF r0.v > ReviewThreshold THEN Num(ReviewCap) ELSE r0
    IN  [p EXCEPT !.review_count = r1]

\* specifications validation
FixSpecs(p) ==
    IF p.specifications.k # "map"
    THEN [p EXCEPT !.specifications = SpecMap({})]
    ELSE p

\* the normalization steps of validateProduct, in the order of the code
Normalize(p) == FixSpecs(FixReviews(FixRating(ClampDiscount(SwapPrices(FixOriginal(p))))))

\* Gate that also rejects a score equal to the threshold
GateInclusive(p) ==
    LET q == calculateQualityScore(p)
    IN  IF q <= QualityGate THEN None
        ELSE [k |-> "record", p |-> p, quality_score |-> q]

\* quality scoring and the acceptance gate
Gate(p) ==
    LET q == calculateQualityScore(p)
    IN  IF q < QualityGate THEN None
        ELSE [k |-> "record", p |-> p, quality_score |-> q]

\* validateProduct that lets a current price of 0 through
validateProductZeroPrice(p) ==
    IF isNaN(p.current_price) \/ isNull(p.current_price) \/ jsLt(p.current_price, 0)
    THEN None
    ELSE Gate(Normalize(p))

\* BaseScraper.validateProduct
validateProduct(p) ==
    IF isNaN(p.current_price) \/ isNull(p.current_price) \/ jsLe(p.current_price, 0)
    THEN None
    ELSE Gate(Normalize(p))

(***************************************************************************)
(* The validator as a process: extractProductData builds one candidate per *)
(* product card and hands it to validateProduct.                           *)
(***************************************************************************)
CurPrices  == {Null, Undef, NaNv, Num(-5), Num(0), Num(800), Num(1000)}
OrigPrices == {Null, NaNv, Num(-5), Num(0), Num(800), Num(1000)}
Discounts  == {Null, NaNv, Num(-3), Num(0), Num(20), Num(96)}
Ratings    == {Null, NaNv, Num(-1), Num(0), Num(4), Num(7)}
Reviews    == {Null, Num(-1), Num(0), Num(5), Num(ReviewThreshold), Num(ReviewThreshold + 1)}
SpecInputs == {SpecMissing, SpecMap({}), SpecMap({"ram", "storage"}),
               SpecMap({"ram", "storage", "battery"})}
Images     == {NoImage, "img"}
TitleLens  == {15, 25}

Candidates ==
    [current_price : CurPrices, original_price : OrigPrices,
     discount_percent : Discounts, rating : Ratings, review_count : Reviews,
     specifications : SpecInputs, image_url : Images, titleLen : TitleLens]

Pending == [k |-> "pending"]

ValInit == vin \in Candidates /\ vout = Pending /\ vagain = Pending

\* extractProductData: return this.validateProduct(product)
Validate ==
    /\ vout = Pending
    /\ vout' = validateProduct(vin)
    /\ UNCHANGED <<vin, vagain>>
    /\ UNCHANGED <<recVars, exVars, drvVars, ttlVars, srvVars>>

\* validateProduct applied to a record it has accepted
Revalidate ==
    /\ vout.k = "record"
    /\ vagain = Pending
    /\ vagain' = validateProduct(vout.p)
    /\ UNCHANGED <<vin, vout>>
    /\ UNCHANGED <<recVars, exVars, drvVars, ttlVars, srvVars>>

(***************************************************************************)
(* Reconciler.  Table products has the UNIQUE column product_id, on which  *)
(* the upsert resolves conflicts; platform_id is an ordinary column.       *)
(***************************************************************************)
MaxOps == 3

PIDS      == {"p1", "p2"}
PLATFORMS == {1, 2}
NULLS     == "null"
NoRow     == [k |-> "absent"]

\* the records a page can yield for one product card: a full listing, a
\* degraded one, one without a specifications mapping, and a re-listed one
Listing(v) ==
    CASE v = 1 -> [title |-> "t1", brand |-> "b1", category |-> "Smartphones",
                   subcategory |-> "Mobile Phones", image_url |-> "img1",
                   product_url |-> "u1", current_price |-> 1000,
                   original_price |-> 1200, discount_percent |-> 17,
                   is_available |-> TRUE, rating |-> Num(4),
                   specifications |-> SpecMap({"ram", "storage", "battery"})]
      [] v = 2 -> [title |-> "t2", brand |-> "b1", category |-> "Smartphones",
                   subcategory |-> NULLS, image_url |-> NULLS,
                   product_url |-> "u1", current_price |-> 800,
                   original_price |-> 800, discount_percent |-> 0,
                   is_available |-> TRUE, rating |-> Null,
                   specifications |-> SpecMap({})]
      [] v = 4 -> [title |-> "t2", brand |-> "b1", category |-> "Smartphones",
                   subcategory |-> NULLS, image_url |-> NULLS,
                   product_url |-> "u1", current_price |-> 800,
                   original_price |-> 800, discount_percent |-> 0,
                   is_available |-> TRUE, rating |-> Null,
                   specifications |-> SpecMissing]
      [] OTHER -> [title |-> "t1", brand |-> "b2", category |-> "Smartphones",
                   subcategory |-> "Mobile Phones", image_url |-> "img2",
                   product_url |-> "u2", current_price |-> 900,
                   original_price |-> 1200, discount_percent |-> 25,
                   is_available |-> FALSE, rating |-> Num(3),
                   specifications |-> SpecMap({"ram"})]

ReviewCounts == {0, 50, 100}

Incoming ==
    { [product_id |-> "p1", review_count |-> rc, listing |-> Listing(v)] :
        rc \in ReviewCounts, v \in {1, 2} }
    \cup
    { [product_id |-> "p2", review_count |-> 50, listing |-> Listing(v)] :
        v \in {1, 2} }
    \cup
    { [product_id |-> "p1", review_count |-> 50, listing |-> Listing(v)] :
        v \in {3, 4} }

\* COALESCE(EXCLUDED.x, products.x)
Coalesce(new, old) == IF new # NULLS THEN new ELSE old

\* MergeReviewCount that adds the incoming count to the stored one
MergeReviewCountSum(new, old) == new + old

\* review_count = CASE WHEN EXCLUDED > products THEN EXCLUDED
\*                     WHEN EXCLUDED > 0 THEN EXCLUDED ELSE products END
MergeReviewCount(new, old) ==
    IF new > old THEN new
    ELSE IF new > 0 THEN new
    ELSE old

\* MergeRating that assigns the incoming rating unconditionally
MergeRatingOverwrite(new, old) == new

\* rating = CASE WHEN EXCLUDED.rating IS NOT NULL THEN EXCLUDED.rating
\*               ELSE products.rating END
MergeRating(new, old) == IF ~isNull(new) THEN new ELSE old

\* MergeSpecifications that merges the two mappings key by key
MergeSpecificationsUnion(new, old) == SpecMap(new.keys \cup old.keys)

\* specifications = CASE WHEN EXCLUDED::text != '{}' AND EXCLUDED::text != 'null'
\*                       THEN EXCLUDED ELSE products END
\* (the parameter is JSON.stringify(specifications || {}))
MergeSpecifications(new, old) ==
    IF new.k = "map" /\ new.keys # {} THEN new ELSE old

\* the parameter JSON.stringify(specifications || {}) as the column reads it
StoredSpecs(sp) == IF sp.k = "map" THEN sp ELSE SpecMap({})

\* INSERT ... VALUES: the row a first upsert creates (scrape_count DEFAULT 1)
InsertRow(r, platform, id, t) ==
    [k |-> "row", id |-> id, product_id |-> r.product_id, platform_id |-> platform,
     title |-> r.listing.title, brand |-> r.listing.brand,
     category |-> r.listing.category, subcategory |-> r.listing.subcategory,
     image_url |-> r.listing.image_url, product_url |-> r.listing.product_url,
     current_price |-> r.listing.current_price,
     original_price |-> r.listing.original_price,
     discount_percent |-> r.listing.discount_percent,
     is_available |-> r.listing.is_available,
     rating |-> r.listing.rating, review_count |-> r.review_count,
     specifications |-> StoredSpecs(r.listing.specifications),
     scrape_count |-> 1, first_seen |-> t, last_updated |-> t]

\* UpdateRow that leaves scrape_count as it was
UpdateRowNoCount(old, r, t) ==
    [old EXCEPT
        !.title = r.listing.title,
        !.brand = r.listing.brand,
        !.category = r.listing.category,
        !.subcategory = Coalesce(r.listing.subcategory, old.subcategory),
        !.image_url = Coalesce(r.listing.image_url, old.image_url),
        !.product_url = Coalesce(r.listing.product_url, old.product_url),
        !.current_price = r.listing.current_price,
        !.original_price = r.listing.original_price,
        !.discount_percent = r.listing.discount_percent,
        !.is_available = r.listing.is_available,
        !.rating = MergeRating(r.listing.rating, old.rating),
        !.review_count = MergeReviewCount(r.review_count, old.review_count),
        !.specifications = MergeSpecifications(StoredSpecs(r.listing.specifications),
                                               old.specifications),
        !.last_updated = t]

\* ON CONFLICT (product_id) DO UPDATE SET ...
UpdateRow(old, r, t) ==
    [old EXCEPT
        !.title = r.listing.title,
        !.brand = r.listing.brand,
        !.category = r.listing.category,
        !.subcategory = Coalesce(r.listing.subcategory, old.subcategory),
        !.image_url = Coalesce(r.listing.image_url, old.image_url),
        !.product_url = Coalesce(r.listing.product_url, old.product_url),
        !.current_price = r.listing.current_price,
        !.original_price = r.listing.original_price,
        !.discount_percent = r.listing.discount_percent,
        !.is_available = r.listing.is_available,
        !.rating = MergeRating(r.listing.rating, old.rating),
        !.review_count = MergeReviewCount(r.review_count, old.review_count),
        !.specifications = MergeSpecifications(StoredSpecs(r.listing.specifications),
                                               old.specifications),
        !.scrape_count = old.scrape_count + 1,
        !.last_updated = t]

\* the row the statement conflicts with: the one with the same product_id
Conflict(tbl, r) == tbl[r.product_id]

\* Product.upsert: the table after the statement, and RETURNING id, inserted
upsert(tbl, r, platform, id, t) ==
    LET old == Conflict(tbl, r)
    IN  IF old = NoRow
        THEN [table |-> [tbl EXCEPT ![r.product_id] = InsertRow(r, platform, id, t)],
              id |-> id, isNew |-> TRUE]
        ELSE [table |-> [tbl EXCEPT ![r.product_id] = UpdateRow(old, r, t)],
              id |-> old.id, isNew |-> FALSE]

\* Product.addPriceHistory: the row inserted into price_history
Snapshot(id, priceData) ==
    [product_id |-> id, price |-> priceData.current_price,
     original_price |-> priceData.original_price,
     discount_percent |-> priceData.discount_percent,
     is_available |-> priceData.is_available]

NoStats == [scraped |-> 0, new |-> 0, updated |-> 0]
NoCall  == [op |-> "none"]
IdleRun == [pc |-> "idle"]

RecInit ==
    /\ products = [pid \in PIDS |-> NoRow]
    /\ price_history = <<>>
    /\ nextId = 1
    /\ run = IdleRun
    /\ last = NoCall
    /\ upserts = [pid \in PIDS |-> 0]
    /\ ops = 0

\* scrape: the pages yielded at least one product; the persistence loop starts
StartRun(platform) ==
    /\ run.pc \in {"idle", "done"}
    /\ ops < MaxOps
    /\ run' = [pc |-> "loop", platform_id |-> platform, stats |-> NoStats,
               i |-> 0, hist0 |-> Len(price_history),
               product |-> NoRow, result |-> NoRow]
    /\ last' = NoCall
    /\ UNCHANGED <<products, price_history, nextId, upserts, ops>>
    /\ UNCHANGED <<valVars, exVars, drvVars, ttlVars, srvVars>>

\* for (const product of allProducts): product.platform_id = platformId;
\* result = await Product.upsert(product); stats.scraped++ ...
\* The statement either commits (ok) or the query throws, which the loop's
\* catch swallows before it goes on to the next product.
RunUpsert(r, ok) ==
    /\ run.pc = "loop"
    /\ ops < MaxOps
    /\ ops' = ops + 1
    /\ LET res == upsert(products, r, run.platform_id, nextId, ops + 1)
       IN  IF ok
           THEN /\ products' = res.table
                /\ nextId' = IF res.isNew THEN nextId + 1 ELSE nextId
                /\ run' = [run EXCEPT
                             !.pc = "history",
                             !.product = r,
                             !.result = [id |-> res.id, isNew |-> res.isNew],
                             !.i = @ + 1,
                             !.stats = [scraped |-> @.scraped + 1,
                                        new |-> IF res.isNew THEN @.new + 1 ELSE @.new,
                                        updated |-> IF res.isNew THEN @.updated
                                                    ELSE @.updated + 1]]
                /\ upserts' = [upserts EXCEPT ![r.product_id] = @ + 1]
                /\ last' = [op |-> "upsert", ok |-> TRUE, record |-> r,
                            platform_id |-> run.platform_id,
                            before |-> Conflict(products, r),
                            id |-> res.id, isNew |-> res.isNew]
           ELSE /\ run' = [run EXCEPT !.i = @ + 1]
                /\ last' = [op |-> "upsert", ok |-> FALSE, record |-> r,
                            platform_id |-> run.platform_id,
                            before |-> Conflict(products, r),
                            id |-> 0, isNew |-> FALSE]
                /\ UNCHANGED <<products, nextId, upserts>>
    /\ UNCHANGED price_history
    /\ UNCHANGED <<valVars, exVars, drvVars, ttlVars, srvVars>>

\* await Product.addPriceHistory(result.id, {...}); a throw is swallowed by
\* the same catch
RunHistory(ok) ==
    /\ run.pc = "history"
    /\ price_history' =
          IF ok THEN Append(price_history, Snapshot(run.result.id, run.product.listing))
          ELSE price_history
    /\ run' = [run EXCEPT !.pc = "loop", !.product = NoRow, !.result = NoRow]
    /\ last' = [op |-> "history", ok |-> ok, record |-> run.product,
                platform_id |-> run.platform_id, before |-> NoRow,
                id |-> run.result.id, isNew |-> run.result.isNew]
    /\ UNCHANGED <<products, nextId, upserts, ops>>
    /\ UNCHANGED <<valVars, exVars, drvVars, ttlVars, srvVars>>

\* allProducts is exhausted: return stats
RunEnd ==
    /\ run.pc = "loop"
    /\ run.i > 0
    /\ run' = [run EXCEPT !.pc = "done"]
    /\ UNCHANGED <<products, price_history, nextId, last, upserts, ops>>
    /\ UNCHANGED <<valVars, exVars, drvVars, ttlVars, srvVars>>

(***************************************************************************)
(* Pattern store.  The document maps a platform to its fields, a field to  *)
(* {selectors, confidence, last_healed, last_worked}.  A selector of the   *)
(* in-memory list can be undefined; JSON.stringify writes it as null.      *)
(***************************************************************************)
PLATNAMES == {"amazon", "flipkart"}
FIELDS    == {"title", "price"}
UNDEFSEL  == "<undefined>"
NULLSEL   == "<null>"
NoTime    == 0 - 1
NoEntry   == [k |-> "missing"]
NoDoc     == [k |-> "null"]

cooldownMs        == 30000
MaxSelectors      == 5
HealedConfidence  == 80
DefaultConfidence == 50
ConfidenceUp      == 5
ConfidenceDown    == 10
MaxConfidence     == 100

\* a.indexOf(v), 1-based; 0 when absent
IndexOf(sq, v) ==
    IF \E j \in 1..Len(sq) : sq[j] = v
    THEN CHOOSE j \in 1..Len(sq) : sq[j] = v /\ \A h \in 1..(j - 1) : sq[h] # v
    ELSE 0

\* .filter((v, i, a) => a.indexOf(v) === i)
Dedupe(sq) ==
    LET F[i \in 0..Len(sq)] ==
            IF i = 0 THEN <<>>
            ELSE IF IndexOf(sq, sq[i]) = i THEN Append(F[i - 1], sq[i])
            ELSE F[i - 1]
    IN  F[Len(sq)]

\* .slice(0, n)
Slice(sq, n) == SubSeq(sq, 1, Min(n, Len(sq)))

\* field.selectors.splice(index, 1); field.selectors.unshift(selector)
MoveToFront(sq, idx) ==
    <<sq[idx]>> \o SubSeq(sq, 1, idx - 1) \o SubSeq(sq, idx + 1, Len(sq))

\* SerializeSelectors that writes the list in reverse order
SerializeSelectorsReversed(sq) ==
    [j \in 1..Len(sq) |-> IF sq[Len(sq) + 1 - j] = UNDEFSEL THEN NULLSEL
                          ELSE sq[Len(sq) + 1 - j]]

\* JSON.stringify then JSON.parse of one selector list: undefined becomes null
SerializeSelectors(sq) ==
    [j \in 1..Len(sq) |-> IF sq[j] = UNDEFSEL THEN NULLSEL ELSE sq[j]]

SerializeEntry(e) ==
    IF e = NoEntry THEN e
    ELSE [e EXCEPT !.selectors = SerializeSelectors(e.selectors)]

\* savePatterns then loadPatterns: what a written document reads back as
Serialize(doc) ==
    [pl \in PLATNAMES |->
        [last_updated |-> doc[pl].last_updated,
         patterns |-> [f \in FIELDS |-> SerializeEntry(doc[pl].patterns[f])]]]

\* (field.confidence || 50)
ConfidenceOr50(c) == IF c = 0 THEN DefaultConfidence ELSE c

\* SelectorHealer.updateConfidence, the in-memory change of a loaded document
\* whose field exists
updateConfidence(doc, pl, f, selector, worked, t) ==
    LET field == doc[pl].patterns[f]
        idx   == IndexOf(field.selectors, selector)
        up    == [field EXCEPT
                     !.confidence = Min(MaxConfidence, ConfidenceOr50(@) + ConfidenceUp),
                     !.last_worked = t,
                     !.selectors = IF idx > 1 THEN MoveToFront(@, idx) ELSE @]
        down  == [field EXCEPT
                     !.confidence = Max(0, ConfidenceOr50(@) - ConfidenceDown)]
    IN  [doc EXCEPT ![pl].patterns[f] = IF worked THEN up ELSE down]

\* HealedSelectors that puts the candidates behind the previous list
HealedSelectorsAppend(ns, old) ==
    Slice(Dedupe(old \o <<ns.primary, ns.fallback1, ns.fallback2>>), MaxSelectors)

\* the selector list a heal stores: the candidates in front of the previous
\* list, duplicates removed, the first five kept
HealedSelectors(ns, old) ==
    Slice(Dedupe(<<ns.primary, ns.fallback1, ns.fallback2>> \o old), MaxSelectors)

\* SelectorHealer.healSelector, the in-memory change of a loaded document
healSelector(doc, pl, f, ns, t) ==
    LET field0 == IF doc[pl].patterns[f] = NoEntry
                  THEN [k |-> "entry", selectors |-> <<>>, confidence |-> 0,
                        last_healed |-> NoTime, last_worked |-> NoTime]
                  ELSE doc[pl].patterns[f]
        field1 == [field0 EXCEPT
                      !.selectors = HealedSelectors(ns, field0.selectors),
                      !.last_healed = t,
                      !.confidence = HealedConfidence]
    IN  [doc EXCEPT ![pl].patterns[f] = field1, ![pl].last_updated = t]

\* the response of the inference service as findSelector sees it: a
\* transport error (timeout, 429), a text without a JSON object, a text whose
\* braces do not parse, or a JSON object (a key it lacks reads undefined)
Answer(p, f1, f2) == [k |-> "object", primary |-> p, fallback1 |-> f1, fallback2 |-> f2]
Responses ==
    {[k |-> "error"], [k |-> "nojson"], [k |-> "badjson"],
     Answer("n1", "n2", "s1"), Answer("n2", "n1", "s1"),
     Answer("n1", UNDEFSEL, UNDEFSEL), Answer(UNDEFSEL, UNDEFSEL, UNDEFSEL)}

\* SelectorHealer.findSelector: null, or the parsed object as it is
findSelector(resp) == IF resp.k = "object" THEN resp ELSE NoDoc

(***************************************************************************)
(* Scraper instances.  PlatformLoader.getPlatform constructs a new         *)
(* instance per call; the constructor starts initializeHealer without      *)
(* awaiting it.  Each await of smartExtract and of the healer is a step.   *)
(***************************************************************************)
MaxCalls == 2
MaxTicks == 2
TickMs   == cooldownMs \div 2

INST      == {1, 2}
SELECTORS == {"s1", "s2", "s3", "s4", "n1", "n2"}
\* the selectors that extract a valid value on the element of one call
Elements  == {{}, {"s1"}, {"s2", "s3"}, {"n1"}}

NoInst   == [state |-> "none"]
NoRet    == [k |-> "none", selector |-> NULLSEL]
Fallback == [k |-> "fallback", selector |-> NULLSEL]
Value(selector) == [k |-> "value", selector |-> selector]

\* the initial document: every platform has a title pattern (a short list
\* and a long one) and no price pattern yet; the confidences are the two ends
\* of the range
InitialDoc ==
    [pl \in PLATNAMES |->
        [last_updated |-> NoTime,
         patterns |-> [f \in FIELDS |->
            IF f = "title"
            THEN [k |-> "entry",
                  selectors |-> IF pl = "amazon" THEN <<"s1", "s2">>
                                ELSE <<"s1", "s2", "s3", "s4">>,
                  confidence |-> IF pl = "amazon" THEN 0 ELSE MaxConfidence,
                  last_healed |-> NoTime, last_worked |-> NoTime]
            ELSE NoEntry]]]

\* new PlatformClass(): BaseScraper's constructor
NewInstance(pl) ==
    [state |-> "live", platform |-> pl, patterns |-> NoDoc, loading |-> TRUE,
     healingCooldowns |-> [f \in FIELDS |-> 0],
     pc |-> "idle", field |-> "title", valid |-> {}, sel |-> NULLSEL,
     ns |-> NoDoc, towrite |-> NoDoc, stamp |-> NoTime, ret |-> NoRet]

\* a smartExtract call returns: its locals are dropped
Return(in, ret) ==
    [in EXCEPT !.pc = "idle", !.field = "title", !.valid = {}, !.sel = NULLSEL,
               !.ns = NoDoc,
               !.towrite = NoDoc, !.stamp = NoTime, !.ret = ret]

\* this.patterns?.[platform]?.patterns?.[fieldName]?.selectors || []
SelectorsOf(doc, pl, f) ==
    IF doc = NoDoc THEN <<>>
    ELSE IF doc[pl].patterns[f] = NoEntry THEN <<>>
    ELSE doc[pl].patterns[f].selectors

\* FirstValid that takes the last selector of the list that extracts a value
FirstValidLast(sq, valid) ==
    IF \E j \in 1..Len(sq) : sq[j] \in valid
    THEN CHOOSE j \in 1..Len(sq) :
            sq[j] \in valid /\ \A h \in (j + 1)..Len(sq) : sq[h] \notin valid
    ELSE 0

\* FirstValid that reports every hit as a hit of the top selector
FirstValidAsTop(sq, valid) ==
    IF \E j \in 1..Len(sq) : sq[j] \in valid THEN 1 ELSE 0

\* the index of the first selector of the list that extracts a valid value
\* on the element; 0 when none does
FirstValid(sq, valid) ==
    IF \E j \in 1..Len(sq) : sq[j] \in valid
    THEN CHOOSE j \in 1..Len(sq) :
            sq[j] \in valid /\ \A h \in 1..(j - 1) : sq[h] \notin valid
    ELSE 0

\* canHeal without a cooldown
canHealAlways(in, f, t) == TRUE

\* canHeal with one cooldown for all the fields of the instance
canHealShared(in, f, t) ==
    \A g \in FIELDS : ~(t - in.healingCooldowns[g] < cooldownMs)

\* BaseScraper.canHeal: the test
canHeal(in, f, t) == ~(t - in.healingCooldowns[f] < cooldownMs)

ExInit ==
    /\ store = InitialDoc
    /\ ideal = store
    /\ inst = [i \in INST |-> NoInst]
    /\ now = cooldownMs
    /\ healLog = {}
    /\ lastWrite = [kind |-> "none"]
    /\ lastCall = "none"
    /\ calls = 0

\* PlatformLoader.getPlatform: return new PlatformClass()
GetPlatform(i, pl) ==
    /\ inst[i] = NoInst
    /\ inst' = [inst EXCEPT ![i] = NewInstance(pl)]
    /\ UNCHANGED <<store, now, healLog, ideal, lastWrite, lastCall, calls>>
    /\ UNCHANGED <<valVars, recVars, drvVars, ttlVars, srvVars>>

\* BaseScraper.initializeHealer: the registry load started by the constructor
\* completes (loadPatterns returns null when the file cannot be read)
InitializeHealer(i, ok) ==
    /\ inst[i].state = "live"
    /\ inst[i].loading
    /\ inst' = [inst EXCEPT ![i].loading = FALSE,
                            ![i].patterns = IF ok THEN store ELSE NoDoc]
    /\ UNCHANGED <<store, now, healLog, ideal, lastWrite, lastCall, calls>>
    /\ UNCHANGED <<valVars, recVars, drvVars, ttlVars, srvVars>>

\* BaseScraper.smartExtract up to its first await: the selector loop on the
\* in-memory registry, then canHeal and the start of healSelector
SmartExtract(i, f, valid, bigSample) ==
    /\ inst[i].state = "live"
    /\ inst[i].pc = "idle"
    /\ calls < MaxCalls
    /\ calls' = calls + 1
    /\ LET in  == inst[i]
           sq  == SelectorsOf(in.patterns, in.platform, f)
           hit == FirstValid(sq, valid)
           call == [in EXCEPT !.field = f, !.valid = valid, !.ret = NoRet]
       IN  IF hit = 1
           THEN \* await this.healer.updateConfidence(platform, fieldName, selector, true)
                /\ inst' = [inst EXCEPT ![i] = [call EXCEPT !.pc = "uc_load",
                                                            !.sel = sq[1]]]
                /\ lastCall' = "primary"
                /\ UNCHANGED healLog
           ELSE IF hit > 1
           THEN /\ inst' = [inst EXCEPT ![i] = Return(call, Value(sq[hit]))]
                /\ lastCall' = "lower"
                /\ UNCHANGED healLog
           ELSE IF ~canHeal(in, f, now)
           THEN /\ inst' = [inst EXCEPT ![i] = Return(call, Fallback)]
                /\ lastCall' = "skipped"
                /\ UNCHANGED healLog
           ELSE LET cooled == [call EXCEPT !.healingCooldowns[f] = now]
                IN  IF ~bigSample
                    THEN \* healSelector: HTML sample too small, return null
                         /\ inst' = [inst EXCEPT ![i] = Return(cooled, Fallback)]
                         /\ lastCall' = "sample"
                         /\ UNCHANGED healLog
                    ELSE \* healSelector awaits findSelector
                         /\ inst' = [inst EXCEPT ![i] = [cooled EXCEPT !.pc = "heal_find"]]
                         /\ lastCall' = "heal"
                         /\ healLog' = healLog \cup
                               {[platform |-> in.platform, field |-> f,
                                 t |-> now, by |-> i]}
    /\ UNCHANGED <<store, now, ideal, lastWrite>>
    /\ UNCHANGED <<valVars, recVars, drvVars, ttlVars, srvVars>>

\* updateConfidence: loadPatterns resolves; the change is made in memory and
\* savePatterns is called with the serialized document
UCLoad(i, ok) ==
    /\ inst[i].state = "live"
    /\ inst[i].pc = "uc_load"
    /\ LET in == inst[i]
       IN  IF ~ok \/ store[in.platform].patterns[in.field] = NoEntry
           THEN inst' = [inst EXCEPT ![i] = Return(in, Value(in.sel))]
           ELSE inst' = [inst EXCEPT
                    ![i].pc = "uc_save",
                    ![i].stamp = now,
                    ![i].towrite = updateConfidence(store, in.platform, in.field,
                                                    in.sel, TRUE, now)]
    /\ UNCHANGED <<store, now, healLog, ideal, lastWrite, lastCall, calls>>
    /\ UNCHANGED <<valVars, recVars, drvVars, ttlVars, srvVars>>

\* updateConfidence: the write of savePatterns lands (or fails, which
\* savePatterns swallows); smartExtract returns the extracted value
UCSave(i, ok) ==
    /\ inst[i].state = "live"
    /\ inst[i].pc = "uc_save"
    /\ LET in == inst[i]
       IN  /\ store' = IF ok THEN Serialize(in.towrite) ELSE store
           /\ ideal' = IF ok /\ ideal[in.platform].patterns[in.field] # NoEntry
                       THEN Serialize(updateConfidence(ideal, in.platform, in.field,
                                                       in.sel, TRUE, in.stamp))
                       ELSE ideal
           /\ lastWrite' = IF ok
                           THEN [kind |-> "confidence", resp |-> NoDoc,
                                 changed |-> Serialize(in.towrite) # store]
                           ELSE lastWrite
           /\ inst' = [inst EXCEPT ![i] = Return(in, Value(in.sel))]
    /\ UNCHANGED <<now, healLog, lastCall, calls>>
    /\ UNCHANGED <<valVars, recVars, drvVars, ttlVars, srvVars>>

\* healSelector: findSelector resolves with the service's response
HealFind(i, resp) ==
    /\ inst[i].state = "live"
    /\ inst[i].pc = "heal_find"
    /\ LET in == inst[i]
           ns == findSelector(resp)
       IN  IF ns = NoDoc
           THEN inst' = [inst EXCEPT ![i] = Return(in, Fallback)]
           ELSE inst' = [inst EXCEPT ![i].pc = "heal_load", ![i].ns = ns]
    /\ UNCHANGED <<store, now, healLog, ideal, lastWrite, lastCall, calls>>
    /\ UNCHANGED <<valVars, recVars, drvVars, ttlVars, srvVars>>

\* healSelector: loadPatterns resolves; the new list is built in memory and
\* savePatterns is called
HealLoad(i, ok) ==
    /\ inst[i].state = "live"
    /\ inst[i].pc = "heal_load"
    /\ LET in == inst[i]
       IN  IF ~ok
           THEN inst' = [inst EXCEPT ![i] = Return(in, Fallback)]
           ELSE inst' = [inst EXCEPT
                    ![i].pc = "heal_save",
                    ![i].stamp = now,
                    ![i].towrite = healSelector(store, in.platform, in.field,
                                                in.ns, now)]
    /\ UNCHANGED <<store, now, healLog, ideal, lastWrite, lastCall, calls>>
    /\ UNCHANGED <<valVars, recVars, drvVars, ttlVars, srvVars>>

\* healSelector: the write lands (or fails) and it returns newSelectors.primary;
\* smartExtract re-attempts the extraction with that selector
HealSave(i, ok) ==
    /\ inst[i].state = "live"
    /\ inst[i].pc = "heal_save"
    /\ LET in == inst[i]
           primary == in.ns.primary
       IN  /\ store' = IF ok THEN Serialize(in.towrite) ELSE store
           /\ ideal' = IF ok
                       THEN Serialize(healSelector(ideal, in.platform, in.field,
                                                   in.ns, in.stamp))
                       ELSE ideal
           /\ lastWrite' = IF ok
                           THEN [kind |-> "heal", resp |-> in.ns,
                                 changed |-> Serialize(in.towrite) # store]
                           ELSE lastWrite
           /\ IF primary # UNDEFSEL /\ primary \in in.valid
              THEN \* this.patterns = await this.healer.loadPatterns()
                   inst' = [inst EXCEPT ![i].pc = "reload", ![i].sel = primary,
                                        ![i].towrite = NoDoc, ![i].stamp = NoTime]
              ELSE inst' = [inst EXCEPT ![i] = Return(in, Fallback)]
    /\ UNCHANGED <<now, healLog, lastCall, calls>>
    /\ UNCHANGED <<valVars, recVars, drvVars, ttlVars, srvVars>>

\* smartExtract: the reload of the registry after a successful heal resolves
Reload(i, ok) ==
    /\ inst[i].state = "live"
    /\ inst[i].pc = "reload"
    /\ LET in == inst[i]
       IN  inst' = [inst EXCEPT ![i] =
                [Return(in, Value(in.sel)) EXCEPT
                    !.patterns = IF ok THEN store ELSE NoDoc]]
    /\ UNCHANGED <<store, now, healLog, ideal, lastWrite, lastCall, calls>>
    /\ UNCHANGED <<valVars, recVars, drvVars, ttlVars, srvVars>>

\* time passes
Tick ==
    /\ now < cooldownMs + MaxTicks * TickMs
    /\ now' = now + TickMs
    /\ UNCHANGED <<store, inst, healLog, ideal, lastWrite, lastCall, calls>>
    /\ UNCHANGED <<valVars, recVars, drvVars, ttlVars, srvVars>>

\* one scraper instance at a time: every extraction of the process is made
\* by the instance of one scrape run
ExInstances == {1}

ExNext ==
    \/ \E i \in ExInstances, pl \in PLATNAMES : GetPlatform(i, pl)
    \/ \E i \in ExInstances, ok \in BOOLEAN : InitializeHealer(i, ok)
    \/ \E i \in ExInstances, f \in FIELDS, valid \in Elements, big \in BOOLEAN :
          SmartExtract(i, f, valid, big)
    \/ \E i \in ExInstances, ok \in BOOLEAN : UCLoad(i, ok)
    \/ \E i \in ExInstances, ok \in BOOLEAN : UCSave(i, ok)
    \/ \E i \in ExInstances, resp \in Responses : HealFind(i, resp)
    \/ \E i \in ExInstances, ok \in BOOLEAN : HealLoad(i, ok)
    \/ \E i \in ExInstances, ok \in BOOLEAN : HealSave(i, ok)
    \/ \E i \in ExInstances, ok \in BOOLEAN : Reload(i, ok)
    \/ Tick

\* two scrape runs of the process overlap: each has its own instance (the
\* file operations succeed, the page elements are the ones of RaceElements)
RaceElements  == {{}, {"s1"}, {"n1"}}
RaceResponses == {[k |-> "error"], Answer("n1", "n2", "s1")}

RaceNext ==
    \/ \E i \in INST, pl \in PLATNAMES : GetPlatform(i, pl)
    \/ \E i \in INST : InitializeHealer(i, TRUE)
    \/ \E i \in INST, f \in FIELDS, valid \in RaceElements :
          SmartExtract(i, f, valid, TRUE)
    \/ \E i \in INST : UCLoad(i, TRUE)
    \/ \E i \in INST : UCSave(i, TRUE)
    \/ \E i \in INST, resp \in RaceResponses : HealFind(i, resp)
    \/ \E i \in INST : HealLoad(i, TRUE)
    \/ \E i \in INST : HealSave(i, TRUE)
    \/ \E i \in INST : Reload(i, TRUE)
    \/ Tick

(***************************************************************************)
(* Page orchestrator and multi-page driver: scrapePage and scrape of the   *)
(* Flipkart and Amazon scrapers.  A product record is its product_id.      *)
(***************************************************************************)
MaxTarget == 3
DelaySamples == 2

maxAttempts == 3
waitUnitMs == 5000
pageCeiling == 10
emptyPageLimit == 2
minSizeBase == 10000
minSizeFlipkart == 50000
captchaSizeFlipkart == 100000
delayMin == 4000
delayMax == 7000

SCRAPERS == {"Flipkart", "Amazon"}
REJECTED == "<rejected>"
NoPage == [k |-> "none"]

\* the cards of a response body: the product_id of each card, REJECTED for a
\* card extractProductData returns null for
Bodies ==
    {<<>>, <<REJECTED>>, <<"a">>, <<"a", "a">>, <<"a", "b">>, <<"b", "c">>, <<"c">>}

\* the lengths of a response body, and the marker text it contains
BodyLens    == {5000, 20000, 70000, 600000}
BodyMarkers == {"none", "Robot Check", "captcha"}

\* what client.get settles with: a transport failure or a body (its length,
\* the marker in it, its cards): the full-size pages without marker, and a
\* one-card page of every length with every marker
Fetches ==
    {[k |-> "transport"]}
    \cup {[k |-> "body", len |-> 600000, marker |-> "none", cards |-> b] : b \in Bodies}
    \cup {[k |-> "body", len |-> l, marker |-> m, cards |-> <<"a">>] :
              l \in BodyLens, m \in BodyMarkers}

\* blockPatterns.some(pattern => html.includes(pattern)) of BaseScraper
baseMarker(body) == body.marker \in {"Robot Check"}

\* html.toLowerCase().includes('captcha')
captchaMarker(body) == body.marker \in {"captcha"}

\* BaseScraper.isBlocked, which AmazonScraper inherits, and the override
\* FlipkartScraper.isBlocked
isBlocked(s, body) ==
    IF s = "Flipkart"
    THEN \/ body.len < minSizeFlipkart
         \/ body.len < captchaSizeFlipkart /\ captchaMarker(body)
    ELSE baseMarker(body) \/ body.len < minSizeBase

\* the attempt ends in the catch block: client.get rejected or threw BLOCKED
failed(s, resp) == resp.k = "transport" \/ isBlocked(s, resp)

\* the loop over the cards: if (p) products.push(p)
Extracted(cards) == SelectSeq(cards, LAMBDA c : c # REJECTED)

\* if (p && !seenIds.has(p.product_id)) { seenIds.add(...); products.push(p) }
seenIds(sq) ==
    LET F[i \in 0..Len(sq)] ==
            IF i = 0 THEN <<>>
            ELSE IF \E j \in 1..Len(F[i - 1]) : F[i - 1][j] = sq[i] THEN F[i - 1]
            ELSE Append(F[i - 1], sq[i])
    IN  F[Len(sq)]

\* the products scrapePage returns for a body that is not blocked
pageRecords(s, cards) ==
    IF s = "Flipkart" THEN seenIds(Extracted(cards)) ELSE Extracted(cards)

\* if (!allProducts.some(x => x.product_id === p.product_id)) allProducts.push(p)
pushNew(all, pageProducts) ==
    LET F[i \in 0..Len(pageProducts)] ==
            IF i = 0 THEN all
            ELSE IF \E j \in 1..Len(F[i - 1]) : F[i - 1][j] = pageProducts[i] THEN F[i - 1]
            ELSE Append(F[i - 1], pageProducts[i])
    IN  F[Len(pageProducts)]

\* waitTime that does not grow with the attempt
waitTimeFlat(attempt) == waitUnitMs

\* const waitTime = attempt * 5000
waitTime(attempt) == attempt * waitUnitMs

IdleDrv ==
    [pc |-> "idle", scraper |-> "none", maxProducts |-> 0, page |-> 0, attempt |-> 0,
     waits |-> <<>>, allProducts |-> <<>>, emptyPages |-> 0, lastPage |-> NoPage,
     requested |-> 0, emptyRun |-> 0, lastDelay |-> 0, next |-> 0,
     stats |-> [scraped |-> 0, new |-> 0, updated |-> 0], upserted |-> 0,
     outcome |-> "none"]

\* after the while loop: no product collected, or the persistence loop
afterLoop(d) ==
    IF Len(d.allProducts) = 0
    THEN [d EXCEPT !.pc = "done",
                   !.outcome = IF d.scraper = "Amazon" THEN "throw" ELSE "zero"]
    ELSE [d EXCEPT !.pc = "saving", !.next = 1]

\* the condition of the while loop
loopTest(d) ==
    /\ Len(d.allProducts) < d.maxProducts
    /\ d.page <= pageCeiling
    /\ d.scraper = "Flipkart" => d.emptyPages < emptyPageLimit

\* the top of the while loop: the next call of scrapePage, or the exit
loopTop(d) ==
    IF loopTest(d)
    THEN [d EXCEPT !.pc = "get", !.attempt = 1, !.waits = <<>>, !.lastPage = NoPage,
                   !.requested = @ + 1]
    ELSE afterLoop(d)

\* the body of the while loop from the return of scrapePage to the delay
loopBody(d, pageProducts) ==
    LET isEmpty == Len(pageProducts) = 0
        d1 == [d EXCEPT !.emptyRun = IF isEmpty THEN @ + 1 ELSE 0]
        d2 == IF d.scraper = "Amazon"
              THEN [d1 EXCEPT !.allProducts = @ \o pageProducts]
              ELSE IF isEmpty THEN [d1 EXCEPT !.emptyPages = @ + 1]
              ELSE [d1 EXCEPT !.emptyPages = 0,
                              !.allProducts = pushNew(@, pageProducts)]
    IN  IF d.scraper = "Amazon" /\ isEmpty THEN afterLoop(d1)
        ELSE IF Len(d2.allProducts) >= d.maxProducts
        THEN afterLoop([d2 EXCEPT !.allProducts = Slice(@, d.maxProducts)])
        ELSE [d2 EXCEPT !.page = @ + 1, !.pc = "delay"]

DrvInit == drv = IdleDrv

\* scrape({ maxProducts }) up to its first request: the platform lookup and
\* the first test of the loop
scrape(s, maxProducts, found) ==
    /\ drv.pc = "idle"
    /\ drv' = IF ~found
              THEN [IdleDrv EXCEPT !.scraper = s, !.maxProducts = maxProducts,
                                   !.pc = "done",
                                   !.outcome = IF s = "Amazon" THEN "throw" ELSE "zero"]
              ELSE loopTop([IdleDrv EXCEPT !.scraper = s, !.maxProducts = maxProducts,
                                           !.page = 1])
    /\ UNCHANGED <<valVars, recVars, exVars, ttlVars, srvVars>>

\* scrapePage(page, attempt): client.get settles.  A failure below the attempt
\* ceiling starts the wait; otherwise scrapePage returns and the driver's loop
\* body runs up to its delay or its exit
scrapePage(resp) ==
    /\ drv.pc = "get"
    /\ IF failed(drv.scraper, resp) /\ drv.attempt < maxAttempts
       THEN drv' = [drv EXCEPT !.pc = "backoff",
                               !.waits = Append(@, waitTime(drv.attempt))]
       ELSE LET pageProducts == IF failed(drv.scraper, resp) THEN <<>>
                                ELSE pageRecords(drv.scraper, resp.cards)
                returned == [k |-> "page", attempts |-> drv.attempt,
                             waits |-> drv.waits, resp |-> resp,
                             products |-> pageProducts]
            IN  drv' = loopBody([drv EXCEPT !.lastPage = returned], pageProducts)
    /\ UNCHANGED <<valVars, recVars, exVars, ttlVars, srvVars>>

\* the wait is over: return this.scrapePage(page, attempt + 1)
Retry ==
    /\ drv.pc = "backoff"
    /\ drv' = [drv EXCEPT !.pc = "get", !.attempt = @ + 1]
    /\ UNCHANGED <<valVars, recVars, exVars, ttlVars, srvVars>>

\* delay that does not wait
delayNone(min, max, u) == 0

\* BaseScraper.delay: Math.floor(Math.random() * (max - min)) + min, for the
\* random number u / DelaySamples
delay(min, max, u) == ((u * (max - min)) \div DelaySamples) + min

\* await this.delay(4000, 7000) is over: the loop is tested again
Delay(u) ==
    /\ drv.pc = "delay"
    /\ drv' = loopTop([drv EXCEPT !.lastDelay = delay(delayMin, delayMax, u)])
    /\ UNCHANGED <<valVars, recVars, exVars, ttlVars, srvVars>>

\* countStats that counts a record before its upsert has succeeded
countStatsEarly(stats, result) ==
    [scraped |-> stats.scraped + 1,
     new     |-> IF result = "new" THEN stats.new + 1 ELSE stats.new,
     updated |-> IF result = "updated" THEN stats.updated + 1 ELSE stats.updated]

\* stats.scraped++; if (result.isNew) stats.new++; else stats.updated++
\* (not reached when Product.upsert throws)
countStats(stats, result) ==
    IF result = "failed" THEN stats
    ELSE [scraped |-> stats.scraped + 1,
          new     |-> IF result = "new" THEN stats.new + 1 ELSE stats.new,
          updated |-> IF result = "updated" THEN stats.updated + 1 ELSE stats.updated]

\* one round of the persistence loop: upsert and addPriceHistory of one
\* product inside try/catch; after the last one scrape returns its stats.
\* result is how Product.upsert went, historyOk how addPriceHistory went
Save(result, historyOk) ==
    /\ drv.pc = "saving"
    /\ result = "failed" => historyOk
    /\ drv' = [drv EXCEPT !.stats = countStats(@, result),
                          !.upserted = IF result = "failed" THEN @ ELSE @ + 1,
                          !.next = @ + 1,
                          !.pc = IF drv.next = Len(drv.allProducts) THEN "done" ELSE @,
                          !.outcome = IF drv.next = Len(drv.allProducts)
                                      THEN "stats" ELSE @]
    /\ UNCHANGED <<valVars, recVars, exVars, ttlVars, srvVars>>

DrvNext ==
    \/ \E s \in SCRAPERS, maxProducts \in 1..MaxTarget, found \in BOOLEAN :
          scrape(s, maxProducts, found)
    \/ \E resp \in Fetches : scrapePage(resp)
    \/ Retry
    \/ \E u \in 0..(DelaySamples - 1) : Delay(u)
    \/ \E result \in {"new", "updated", "failed"}, historyOk \in BOOLEAN :
          Save(result, historyOk)

(***************************************************************************)
(* Title inferencer: extractSpecsFromTitle.  A title is a sequence of      *)
(* lexemes, each matched by the patterns of its kind only.                 *)
(***************************************************************************)
MaxTitleLen == 3

\* "8GB RAM", "128GB", "256GB", "1TB", "5000mAh", "5G", "4G", "LTE", a word
Tokens ==
    {[k |-> "ram", n |-> 8], [k |-> "gb", n |-> 128], [k |-> "gb", n |-> 256],
     [k |-> "tb", n |-> 1], [k |-> "mah", n |-> 5000], [k |-> "5g", n |-> 5],
     [k |-> "4g", n |-> 4], [k |-> "lte", n |-> 0], [k |-> "word", n |-> 0]}

Titles == UNION {[1..len -> Tokens] : len \in 0..MaxTitleLen}

ATTRIBUTES == {"ram", "storage", "battery", "connectivity"}
Absent == [k |-> "absent"]
NotExtracted == [k |-> "pending"]
SpecValue(n, unit) == [k |-> "value", n |-> n, unit |-> unit]

\* title.match(pattern): the index of the leftmost lexeme the pattern matches
match(ttl, kinds) ==
    IF \A j \in 1..Len(ttl) : ttl[j].k \notin kinds THEN 0
    ELSE CHOOSE j \in 1..Len(ttl) :
            ttl[j].k \in kinds /\ \A h \in 1..(j - 1) : ttl[h].k \notin kinds

\* BaseScraper.extractSpecsFromTitle: ram, storage, battery and connectivity
extractSpecsFromTitle(ttl) ==
    LET ramMatch     == match(ttl, {"ram"})
        storageMatch == match(ttl, {"gb"})
        tbMatch      == match(ttl, {"tb"})
        batteryMatch == match(ttl, {"mah"})
    IN  [ram |-> IF ramMatch # 0 THEN SpecValue(ttl[ramMatch].n, "GB") ELSE Absent,
         storage |-> IF tbMatch # 0 THEN SpecValue(ttl[tbMatch].n, "TB")
                     ELSE IF storageMatch # 0 THEN SpecValue(ttl[storageMatch].n, "GB")
                     ELSE Absent,
         battery |-> IF batteryMatch # 0 THEN SpecValue(ttl[batteryMatch].n, "mAh")
                     ELSE Absent,
         connectivity |-> IF match(ttl, {"5g"}) # 0 THEN SpecValue(5, "G")
                          ELSE IF match(ttl, {"4g", "lte"}) # 0 THEN SpecValue(4, "G")
                          ELSE Absent]

TtlInit == title \in Titles /\ tspecs = NotExtracted

TtlIdle == title = <<>> /\ tspecs = NotExtracted

\* const specifications = this.extractSpecsFromTitle(title)
ExtractSpecs ==
    /\ tspecs = NotExtracted
    /\ tspecs' = extractSpecsFromTitle(title)
    /\ UNCHANGED <<title, valVars, recVars, exVars, drvVars, srvVars>>

TtlNext == ExtractSpecs

(***************************************************************************)
(* Scrape trigger: the route POST /scrape/:platform of server.js and the   *)
(* status entries of the cache.  A request is followed from its arrival    *)
(* through every await of the handler and of the run it starts.            *)
(***************************************************************************)
MaxRequests == 2

REQS == 1..MaxRequests

\* platformLoader.listPlatforms(), lower-cased
AvailablePlatforms == {"flipkart", "amazon"}

\* the values of :platform, lower-cased ('all' has its own handler)
RequestedPlatforms == AvailablePlatforms \cup {"nosuch"}

NoReq == [pc |-> "none", platform |-> "none", code |-> 0]

\* cache.getScrapingStatus: the parsed entry, null when the key is absent or
\* the cache cannot be read
getScrapingStatus(platform, ok) ==
    IF ok /\ platform \in AvailablePlatforms THEN scraping[platform] ELSE "null"

\* cache.setScrapingStatus: cache.set with the key scraping:<platform>; a
\* failure of the cache is swallowed and the entry stays as it was
setScrapingStatus(platform, status, ok) ==
    IF ok THEN [scraping EXCEPT ![platform] = status] ELSE scraping

SrvInit ==
    /\ scraping = [p \in AvailablePlatforms |-> "null"]
    /\ req = [r \in REQS |-> NoReq]

\* a request arrives: the handler runs up to await cache.getScrapingStatus
PostScrape(r, platform) ==
    /\ req[r] = NoReq
    /\ req' = [req EXCEPT ![r] = [pc |-> "get_status", platform |-> platform, code |-> 0]]
    /\ UNCHANGED scraping
    /\ UNCHANGED <<valVars, recVars, exVars, drvVars, ttlVars>>

\* getScrapingStatus resolves: 409 when the entry says running, 404 for an
\* unknown platform, otherwise the answer 'started' and the detached run up
\* to await cache.setScrapingStatus('running')
GetScrapingStatus(r, ok) ==
    /\ req[r].pc = "get_status"
    /\ LET status == getScrapingStatus(req[r].platform, ok)
       IN  IF status = "running"
           THEN req' = [req EXCEPT ![r].pc = "done", ![r].code = 409]
           ELSE IF req[r].platform \notin AvailablePlatforms
           THEN req' = [req EXCEPT ![r].pc = "done", ![r].code = 404]
           ELSE req' = [req EXCEPT ![r].pc = "set_running", ![r].code = 200]
    /\ UNCHANGED scraping
    /\ UNCHANGED <<valVars, recVars, exVars, drvVars, ttlVars>>

\* setScrapingStatus('running') resolves and scraper.scrape is called
SetRunning(r, ok) ==
    /\ req[r].pc = "set_running"
    /\ scraping' = setScrapingStatus(req[r].platform, "running", ok)
    /\ req' = [req EXCEPT ![r].pc = "scrape"]
    /\ UNCHANGED <<valVars, recVars, exVars, drvVars, ttlVars>>

\* scraper.scrape settles: the run goes on to record 'completed', or to the
\* catch block that records 'failed'
ScrapeSettles(r, resolved) ==
    /\ req[r].pc = "scrape"
    /\ req' = [req EXCEPT ![r].pc = IF resolved THEN "set_completed" ELSE "set_failed"]
    /\ UNCHANGED scraping
    /\ UNCHANGED <<valVars, recVars, exVars, drvVars, ttlVars>>

\* setScrapingStatus('completed') resolves: the run is over
SetCompleted(r, ok) ==
    /\ req[r].pc = "set_completed"
    /\ scraping' = setScrapingStatus(req[r].platform, "completed", ok)
    /\ req' = [req EXCEPT ![r].pc = "done"]
    /\ UNCHANGED <<valVars, recVars, exVars, drvVars, ttlVars>>

\* setScrapingStatus('failed') of the catch block resolves: the run is over
SetFailed(r, ok) ==
    /\ req[r].pc = "set_failed"
    /\ scraping' = setScrapingStatus(req[r].platform, "failed", ok)
    /\ req' = [req EXCEPT ![r].pc = "done"]
    /\ UNCHANGED <<valVars, recVars, exVars, drvVars, ttlVars>>

SrvNext ==
    \/ \E r \in REQS, platform \in RequestedPlatforms : PostScrape(r, platform)
    \/ \E r \in REQS, ok \in BOOLEAN : GetScrapingStatus(r, ok)
    \/ \E r \in REQS, ok \in BOOLEAN : SetRunning(r, ok)
    \/ \E r \in REQS, resolved \in BOOLEAN : ScrapeSettles(r, resolved)
    \/ \E r \in REQS, ok \in BOOLEAN : SetCompleted(r, ok)
    \/ \E r \in REQS, ok \in BOOLEAN : SetFailed(r, ok)

(***************************************************************************)
(* Specifications: one per component; the other components stay in their   *)
(* initial state.                                                          *)
(***************************************************************************)
ValIdle ==
    /\ vin = [current_price |-> Null, original_price |-> Null,
              discount_percent |-> Null, rating |-> Null, review_count |-> Null,
              specifications |-> SpecMissing, image_url |-> NoImage, titleLen |-> 15]
    /\ vout = Pending
    /\ vagain = Pending

ValNext == Validate \/ Revalidate

InitVal == ValInit /\ RecInit /\ ExInit /\ DrvInit /\ TtlIdle /\ SrvInit

SpecVal == InitVal /\ [][ValNext]_vars

RecNext ==
    \/ \E platform \in PLATFORMS : StartRun(platform)
    \/ \E r \in Incoming, ok \in BOOLEAN : RunUpsert(r, ok)
    \/ \E ok \in BOOLEAN : RunHistory(ok)
    \/ RunEnd

InitRec == RecInit /\ ValIdle /\ ExInit /\ DrvInit /\ TtlIdle /\ SrvInit

InitEx == ExInit /\ ValIdle /\ RecInit /\ DrvInit /\ TtlIdle /\ SrvInit

SpecEx == InitEx /\ [][ExNext]_vars

SpecRace == InitEx /\ [][RaceNext]_vars

SpecRec == InitRec /\ [][RecNext]_vars

InitDrv == DrvInit /\ ValIdle /\ RecInit /\ ExInit /\ TtlIdle /\ SrvInit

SpecDrv == InitDrv /\ [][DrvNext]_vars

InitTtl == TtlInit /\ ValIdle /\ RecInit /\ ExInit /\ DrvInit /\ SrvInit

SpecTtl == InitTtl /\ [][TtlNext]_vars

InitSrv == SrvInit /\ ValIdle /\ RecInit /\ ExInit /\ DrvInit /\ TtlIdle

SpecSrv == InitSrv /\ [][SrvNext]_vars

(***************************************************************************)
(* Claims about the reconciler (checked under SpecRec).                    *)
(***************************************************************************)
UpsertHit == last.op = "upsert" /\ last.ok /\ ~last.isNew

\* C1: after each upsert that hits an existing product the stored
\* review_count equals max(previously stored, incoming); it never decreases.
C1_ReviewCountIsMax ==
    UpsertHit =>
        products[last.record.product_id].review_count =
            Max(last.before.review_count, last.record.review_count)

\* C2: at the end of a scrape run the number of price-history snapshots the
\* run appended equals the number of its successful upserts, whatever subset
\* of the upsert and history writes failed.
C2_SnapshotPerUpsert ==
    run.pc = "done" => Len(price_history) - run.hist0 = run.stats.scraped

\* C6: upserting a record of source B whose product identifier is that of a
\* stored product of source A creates a separate product (isNew) and leaves
\* every field of A's product unchanged.
C6_IdentityScopedBySource ==
    (last.op = "upsert" /\ last.ok /\ last.before # NoRow
        /\ last.before.platform_id # last.platform_id)
    => (last.isNew /\ products[last.record.product_id] = last.before)

(***************************************************************************)
(* Claims about the validator (checked under SpecVal).                     *)
(***************************************************************************)
Accepted == vout.k = "record"
ValidPrice(p) == p.current_price.k = "num" /\ p.current_price.v > 0

\* C7: every record validateProduct returns has current_price <= original_price.
C7_PriceOrder ==
    Accepted =>
        /\ vout.p.current_price.k = "num"
        /\ vout.p.original_price.k = "num"
        /\ vout.p.current_price.v <= vout.p.original_price.v

\* C7 witness: an accepted record whose input prices were inverted
C7_Witness ==
    /\ Accepted
    /\ vin.current_price = Num(1000)
    /\ vin.original_price = Num(800)
    /\ vout.p.current_price = Num(800)

\* C8: every returned record has an integer review_count in 0..999999; every
\* input count above 999999, 1000000 included, is capped to 999999.
C8_ReviewCountCapped ==
    Accepted =>
        /\ vout.p.review_count.k = "num"
        /\ vout.p.review_count.v >= 0
        /\ vout.p.review_count.v <= ReviewCap

\* C9: with a valid current price, validateProduct returns none exactly when
\* the quality score of the normalized record is below 30, and otherwise
\* returns the normalized record carrying that score (so 30 <= score <= 100).
C9_AcceptanceGate ==
    (vout # Pending /\ ValidPrice(vin)) =>
        LET q == calculateQualityScore(Normalize(vin))
        IN  /\ (vout = None) <=> (q < 30)
            /\ Accepted => /\ vout.p = Normalize(vin)
                           /\ vout.quality_score = q
                           /\ 30 <= q /\ q <= 100

\* C9 witness: a record accepted with a score of exactly 30
C9_Witness == Accepted /\ vout.quality_score = 30

\* the scenario of C10: valid prices in order, empty specifications, null
\* rating, zero reviews, no image, a 15-character title
Scenario35(p) ==
    /\ ValidPrice(p)
    /\ p.original_price.k = "num" /\ p.original_price.v >= p.current_price.v
    /\ p.specifications = SpecMap({})
    /\ p.rating = Null
    /\ p.review_count = Num(0)
    /\ p.image_url = NoImage
    /\ p.titleLen = 15

\* C10 as claimed: the scenario record with a non-zero discount scores 35 and
\* is accepted; with discount 0 it scores 30 and is accepted.
C10_Original ==
    (vout # Pending /\ Scenario35(vin)) =>
        /\ vin.discount_percent = Num(20) =>
              (Accepted /\ vout.quality_score = 35)
        /\ vin.discount_percent = Num(0) =>
              (Accepted /\ vout.quality_score = 30)

\* C10 amended: the scenario record with a non-zero discount scores
\* 100-15-10-20-10-10-10 = 25 and is rejected; with discount 0 it scores 20
\* and is rejected.
C10_ScenarioRejected ==
    (vout # Pending /\ Scenario35(vin)) =>
        /\ vin.discount_percent = Num(20) =>
              (vout = None /\ calculateQualityScore(Normalize(vin)) = 25)
        /\ vin.discount_percent = Num(0) =>
              (vout = None /\ calculateQualityScore(Normalize(vin)) = 20)

\* C10 witness: the scenario record with a non-zero discount has been validated
C10_Witness ==
    /\ vout # Pending
    /\ Scenario35(vin)
    /\ vin.discount_percent = Num(20)
    /\ vout = None

(***************************************************************************)
(* Claims about the pattern store and the healer (checked under SpecRace   *)
(* and SpecEx).                                                            *)
(***************************************************************************)
\* no instance is between the load and the save of a store mutation
NoMutationInFlight ==
    \A i \in INST : inst[i] = NoInst \/ inst[i].pc \notin {"uc_save", "heal_save"}

\* C3: store mutations are atomic per (source, field): when two pipelines
\* interleave updateConfidence and healSelector no completed mutation is lost;
\* the document reflects every confidence change and every heal that returned.
C3_NoLostMutation == NoMutationInFlight => store = ideal

\* C4: for every (source, field) at most one heal attempt reaches the
\* inference service in any 30-second window, over all scraper instances of
\* the process.
C4_OneHealPerWindow ==
    \A a, b \in healLog :
        (a # b /\ a.platform = b.platform /\ a.field = b.field)
        => (a.t - b.t >= cooldownMs \/ b.t - a.t >= cooldownMs)

\* a response that holds the three candidate selectors
WellFormed(resp) ==
    /\ resp.k = "object"
    /\ resp.primary # UNDEFSEL
    /\ resp.fallback1 # UNDEFSEL
    /\ resp.fallback2 # UNDEFSEL

\* C5: a heal whose response is missing, an error or malformed (no JSON
\* object, or an object lacking primary, fallback1 or fallback2) leaves the
\* pattern store document unchanged.
C5_MalformedHealWritesNothing ==
    (lastWrite.kind = "heal" /\ ~WellFormed(lastWrite.resp)) => ~lastWrite.changed

(***************************************************************************)
(* Claims about the normalization steps of validateProduct (SpecVal).      *)
(***************************************************************************)
\* a rating that is not a number or lies outside [0, 5]
InvalidRating(x) == x.k \in {"nan", "undef"} \/ (x.k = "num" /\ (x.v < 0 \/ x.v > 5))

\* C11: with a valid current price, a rating outside [0,5] or not a number
\* is normalized to null and does not by itself reject the record (the result
\* is the one the same record gets with a null rating); every returned
\* record has a rating that is null or within [0,5].
C11_RatingNormalized ==
    (vout # Pending /\ ValidPrice(vin)) =>
        /\ InvalidRating(vin.rating) =>
              /\ vout = validateProduct([vin EXCEPT !.rating = Null])
              /\ Accepted => vout.p.rating = Null
        /\ Accepted =>
              \/ vout.p.rating = Null
              \/ vout.p.rating.k = "num" /\ vout.p.rating.v >= 0 /\ vout.p.rating.v <= 5

\* an input rating of 7 was accepted with rating null
C11_Witness == vin.rating = Num(7) /\ Accepted /\ vout.p.rating = Null

\* the input prices are inverted: the original price is a usable number
\* (not missing, not NaN, not negative) below the current price
Inverted(p) ==
    /\ p.original_price.k = "num"
    /\ p.original_price.v >= 0
    /\ p.original_price.v < p.current_price.v

\* the supplied discount clamped into [0, 95], missing or NaN read as 0
ClampedInput(d) ==
    IF d.k # "num" THEN 0
    ELSE IF d.v < 0 THEN 0
    ELSE IF d.v > 95 THEN 95
    ELSE d.v

\* C12: every returned record has 0 <= discount_percent <= 95: a missing or
\* non-numeric discount becomes 0, a negative one 0, one above 95 becomes 95,
\* including the value recomputed by the price swap.
C12_DiscountRange ==
    Accepted =>
        /\ vout.p.discount_percent.k = "num"
        /\ vout.p.discount_percent.v >= 0
        /\ vout.p.discount_percent.v <= 95
        /\ ~Inverted(vin) => vout.p.discount_percent.v = ClampedInput(vin.discount_percent)
        /\ (Inverted(vin) /\ RoundPct(vin.current_price.v, vin.original_price.v) > 95)
              => vout.p.discount_percent.v = 95

\* a swap recomputed a discount of 100, returned as 95; and a supplied 96
\* is a candidate too
C12_Witness ==
    /\ Accepted
    /\ vin.current_price = Num(1000)
    /\ vin.original_price = Num(0)
    /\ vout.p.discount_percent = Num(95)

\* C13: validateProduct returns none whenever the input current price is
\* missing (null or undefined), not a number or <= 0, whatever the other
\* fields are; the rejection is the first step, before any normalization.
C13_InvalidPriceRejected ==
    (vout # Pending /\ ~ValidPrice(vin)) => vout = None

\* an otherwise complete record was rejected for its undefined current price
C13_Witness ==
    /\ vout = None
    /\ vin.current_price = Undef
    /\ validateProduct([vin EXCEPT !.current_price = Num(1000)]) # None

\* C14: an original price that is a valid number below the current price
\* makes validateProduct exchange the two prices and set discount_percent to
\* round((original - current) / original * 100) of the exchanged values,
\* clamped to [0,95] (current 1000, original 800 gives 1000, 800, 20); with
\* original >= current the prices and the supplied discount are left to the
\* later steps unchanged.
C14_SwapAndRecompute ==
    Accepted =>
        /\ Inverted(vin) =>
              /\ vout.p.original_price = vin.current_price
              /\ vout.p.current_price = vin.original_price
              /\ vout.p.discount_percent.v =
                    Min(95, RoundPct(vin.current_price.v, vin.original_price.v))
        /\ (vin.current_price = Num(1000) /\ vin.original_price = Num(800)) =>
              /\ vout.p.original_price = Num(1000)
              /\ vout.p.current_price = Num(800)
              /\ vout.p.discount_percent = Num(20)
        /\ (vin.original_price.k = "num"
            /\ vin.original_price.v >= vin.current_price.v) =>
              /\ vout.p.original_price = vin.original_price
              /\ vout.p.current_price = vin.current_price
              /\ vout.p.discount_percent.v = ClampedInput(vin.discount_percent)

\* current 1000, original 800 and a supplied discount other than 20 came
\* back exchanged with discount 20
C14_Witness ==
    /\ Accepted
    /\ vin.current_price = Num(1000)
    /\ vin.original_price = Num(800)
    /\ vin.discount_percent = Num(96)
    /\ vout.p.current_price = Num(800)
    /\ vout.p.discount_percent = Num(20)

(***************************************************************************)
(* Claims about the merge policy of Product.upsert (SpecRec).              *)
(***************************************************************************)
\* the stored row of the product the last call was about
Row == products[last.record.product_id]

SameRecordAgain ==
    /\ last.op = "upsert" /\ last.ok /\ last.before # NoRow
    /\ last.before = InsertRow(last.record, last.platform_id, last.before.id,
                               last.before.first_seen)

\* C17: the first upsert of a record returns isNew = true; upserting the
\* same unchanged record again returns isNew = false with the same id and
\* leaves the stored review_count and specifications as they were.
C17_Idempotent ==
    /\ (last.op = "upsert" /\ last.ok /\ last.before = NoRow) =>
          (last.isNew /\ Row.id = last.id)
    /\ SameRecordAgain =>
          /\ ~last.isNew
          /\ last.id = last.before.id
          /\ Row.id = last.before.id
          /\ Row.review_count = last.before.review_count
          /\ Row.specifications = last.before.specifications

\* a record with 50 reviews and three specifications was upserted twice
C17_Witness ==
    /\ SameRecordAgain
    /\ last.record.review_count = 50
    /\ last.record.listing.specifications = SpecMap({"ram", "storage", "battery"})
    /\ Row.scrape_count = 2

\* C18: scrape_count is 1 after the upsert that creates the product, grows
\* by exactly 1 with every later successful upsert of the identifier and is
\* left alone by a failed upsert: after n successful upserts it is n.
C18_ScrapeCount ==
    /\ \A pid \in PIDS :
          IF products[pid] = NoRow THEN upserts[pid] = 0
          ELSE products[pid].scrape_count = upserts[pid]
    /\ (last.op = "upsert" /\ last.ok /\ last.before = NoRow) => Row.scrape_count = 1
    /\ UpsertHit => Row.scrape_count = last.before.scrape_count + 1
    /\ (last.op = "upsert" /\ ~last.ok) => Row = last.before

\* a failed upsert after two successful ones left the count at 2
C18_Witness ==
    /\ last.op = "upsert" /\ ~last.ok
    /\ last.before # NoRow
    /\ upserts[last.record.product_id] = 2
    /\ Row.scrape_count = 2

(***************************************************************************)
(* Claims about smartExtract and healSelector (SpecEx).                    *)
(***************************************************************************)
\* every selector the instance holds for the field fails on the element
AllSelectorsFail(i, f, valid) ==
    FirstValid(SelectorsOf(inst[i].patterns, inst[i].platform, f), valid) = 0

\* the cooldown of the field is still running for the instance
CooldownActive(i, f) == now - inst[i].healingCooldowns[f] < 30000

\* C19: a smartExtract call on which every selector of the field fails while
\* the heal cooldown of the field is active returns the fallback value,
\* makes no inference call, leaves the pattern store document unchanged and
\* leaves the recorded last-attempt time unchanged.
C19_SkippedHealIsInert ==
    [][calls' # calls =>
       \A i \in INST, f \in FIELDS, valid \in Elements, big \in BOOLEAN :
          (SmartExtract(i, f, valid, big)
              /\ AllSelectorsFail(i, f, valid) /\ CooldownActive(i, f))
          => /\ inst'[i].pc = "idle"
             /\ inst'[i].ret = Fallback
             /\ healLog' = healLog
             /\ store' = store
             /\ inst'[i].healingCooldowns = inst[i].healingCooldowns]_vars

\* a call was skipped inside the window although the instance holds
\* selectors for the field, and the window still started at the first attempt
C19_Witness ==
    /\ lastCall = "skipped"
    /\ inst[1].pc = "idle"
    /\ inst[1].ret = Fallback
    /\ Len(SelectorsOf(inst[1].patterns, inst[1].platform, "title")) >= 2
    /\ inst[1].healingCooldowns["title"] = 30000
    /\ now = 45000
    /\ Cardinality(healLog) = 1

\* the selector list stored for (pl, f), empty when there is no entry
StoredList(doc, pl, f) ==
    IF doc[pl].patterns[f] = NoEntry THEN <<>> ELSE doc[pl].patterns[f].selectors

\* C20: after a heal with a valid response (primary, fallback1, fallback2)
\* the stored selector list of the (source, field) is the first 5 elements of
\* the order-preserving de-duplication of the three candidates followed by
\* the previous list, its confidence is 80 whatever it was, last_healed is
\* stamped, and the entries of every other field and source are unchanged.
C20_HealResult ==
    [][\A i \in INST :
          (HealSave(i, TRUE) /\ WellFormed(inst[i].ns))
          => LET pl  == inst[i].platform
                 f   == inst[i].field
                 ns  == inst[i].ns
                 all == Dedupe(<<ns.primary, ns.fallback1, ns.fallback2>>
                               \o StoredList(store, pl, f))
                 new == store'[pl].patterns[f]
             IN  /\ new # NoEntry
                 /\ new.selectors = SubSeq(all, 1, Min(5, Len(all)))
                 /\ new.confidence = 80
                 /\ new.last_healed = inst[i].stamp
                 /\ new.last_healed >= 0
                 /\ \A pl2 \in PLATNAMES, f2 \in FIELDS :
                       (pl2 # pl \/ f2 # f)
                       => store'[pl2].patterns[f2] = store[pl2].patterns[f2]]_vars

\* a heal of a field with four stored selectors and confidence 100 stored
\* the three candidates first and cut the list to five
C20_Witness ==
    /\ lastWrite.kind = "heal"
    /\ lastWrite.resp = Answer("n1", "n2", "s1")
    /\ lastWrite.changed
    /\ store["flipkart"].patterns["title"] # NoEntry
    /\ store["flipkart"].patterns["title"].selectors = <<"n1", "n2", "s1", "s2", "s3">>
    /\ store["flipkart"].patterns["title"].confidence = 80
    /\ store["flipkart"].patterns["title"].last_healed >= 0

(***************************************************************************)
(* Claims about outcome recording, the healed re-attempt and the shape of  *)
(* the pattern store document (SpecEx).                                    *)
(***************************************************************************)
\* C21: for every stored confidence c in [0,100], c = 0 included,
\* updateConfidence with worked = true stores min(100, c + 5) (and with
\* worked = false max(0, c - 10)).
C21_ConfidenceStep ==
    [][\A i \in INST :
          UCSave(i, TRUE)
          => LET pl == inst[i].platform
                 f  == inst[i].field
                 c  == store[pl].patterns[f].confidence
             IN  store'[pl].patterns[f].confidence = Min(100, c + 5)]_vars

\* the position in the list of the first selector that yields a valid value
\* on the element; 0 when none does
AcceptedIndex(list, valid) ==
    IF \A j \in 1..Len(list) : list[j] \notin valid THEN 0
    ELSE CHOOSE j \in 1..Len(list) :
            list[j] \in valid /\ \A h \in 1..Len(list) : list[h] \in valid => j <= h

\* C22: smartExtract records a successful outcome (updateConfidence with
\* worked = true) if and only if the selector whose result it accepts is the
\* first of the field's list it iterates; when the accepted selector is at
\* index >= 1 it returns the value and leaves the pattern store unchanged.
C22_OnlyTopRankReinforced ==
    [][calls' # calls =>
       \A i \in INST, f \in FIELDS, valid \in Elements, big \in BOOLEAN :
          SmartExtract(i, f, valid, big)
          => LET list == SelectorsOf(inst[i].patterns, inst[i].platform, f)
                 k    == AcceptedIndex(list, valid)
             IN  /\ (inst'[i].pc = "uc_load") <=> (k = 1)
                 /\ k = 1 => inst'[i].sel = list[1]
                 /\ k > 1 => /\ inst'[i].pc = "idle"
                             /\ inst'[i].ret = Value(list[k])
                             /\ store' = store
                             /\ lastWrite' = lastWrite]_vars

\* the second selector of the list was accepted and nothing was recorded
C22_Witness ==
    /\ lastCall = "lower"
    /\ inst[1].pc = "idle"
    /\ inst[1].ret = Value("s2")
    /\ store = InitialDoc
    /\ lastWrite.kind = "none"

\* C23: after a heal that repaired the list, smartExtract re-attempts the
\* extraction on the element with the repaired list: it returns the value of
\* the first selector of the repaired list that yields one, and the fallback
\* only if none of them does.
C23_ReattemptWithRepairedList ==
    [][\A i \in INST :
          (HealSave(i, TRUE) /\ WellFormed(inst[i].ns))
          => LET list == store'[inst[i].platform].patterns[inst[i].field].selectors
                 k    == AcceptedIndex(list, inst[i].valid)
             IN  /\ k > 0 => (inst'[i].pc = "reload" /\ inst'[i].sel = list[k])
                 /\ k = 0 => (inst'[i].pc = "idle" /\ inst'[i].ret = Fallback)]_vars

DuplicateFree(sq) == \A j, h \in 1..Len(sq) : sq[j] = sq[h] => j = h

\* C30: after any sequence of heals (with valid or invalid responses) and
\* outcome recordings every field has a duplicate-free list of at most 5
\* selector strings and an integer confidence in [0,100], and the list of a
\* field is non-empty after a heal of it.
C30_FieldPatternInvariant ==
    \A pl \in PLATNAMES, f \in FIELDS :
        store[pl].patterns[f] # NoEntry =>
            LET e == store[pl].patterns[f]
            IN  /\ Len(e.selectors) <= 5
                /\ DuplicateFree(e.selectors)
                /\ \A j \in 1..Len(e.selectors) : e.selectors[j] \in SELECTORS
                /\ e.confidence \in 0..100
                /\ e.last_healed # NoTime => Len(e.selectors) > 0

(***************************************************************************)
(* Claims about the page orchestrator and the multi-page driver (SpecDrv). *)
(***************************************************************************)
\* the waits scrapePage makes before its attempt number n
BackoffBefore(n) == [k \in 1..(n - 1) |-> k * 5000]

\* C24: scrapePage makes at most 3 fetch attempts for a page, waits
\* attempt x 5 seconds after failed attempt number attempt, and returns: the
\* empty list when every attempt was blocked or failed in transport, else
\* the records extracted from the first attempt that was not blocked.
C24_ScrapePage ==
    /\ drv.pc \in {"get", "backoff"} =>
          /\ drv.attempt \in 1..3
          /\ drv.waits = BackoffBefore(IF drv.pc = "get" THEN drv.attempt
                                        ELSE drv.attempt + 1)
    /\ drv.lastPage # NoPage =>
          LET p == drv.lastPage
          IN  /\ p.attempts \in 1..3
              /\ p.waits = BackoffBefore(p.attempts)
              /\ failed(drv.scraper, p.resp) => (p.attempts = 3 /\ p.products = <<>>)
              /\ ~failed(drv.scraper, p.resp) =>
                    /\ {p.products[j] : j \in 1..Len(p.products)}
                         = {p.resp.cards[j] : j \in 1..Len(p.resp.cards)} \ {REJECTED}
                    /\ drv.scraper = "Amazon" =>
                          Len(p.products)
                            = Cardinality({j \in 1..Len(p.resp.cards) :
                                              p.resp.cards[j] # REJECTED})

\* a page returned by the third attempt after waits of 5 and 10 seconds
C24_Witness ==
    /\ drv.lastPage # NoPage
    /\ drv.lastPage.attempts = 3
    /\ drv.lastPage.waits = <<5000, 10000>>
    /\ ~failed(drv.scraper, drv.lastPage.resp)
    /\ drv.lastPage.products = <<"b", "c">>

\* the run has left the loop with products to hand to Product.upsert
Handed == drv.pc \in {"saving", "done"} /\ Len(drv.allProducts) > 0

\* C25: for every source, the list of records a scrape run hands to the
\* reconciler holds no two records with the same product identifier.
C25_NoDuplicateHanded == Handed => DuplicateFree(drv.allProducts)

\* one of the three stop conditions of the driver holds
StopCondition ==
    \/ Len(drv.allProducts) >= drv.maxProducts
    \/ drv.requested >= 10
    \/ drv.emptyRun >= 2

\* C26: the driver requests pages 1, 2, ... and stops exactly when the
\* collected count reaches maxProducts, or 10 pages have been requested, or
\* 2 consecutive pages returned empty; it never requests more than 10 pages
\* and never hands more than maxProducts records on.
C26_DriverStops ==
    /\ drv.requested <= 10
    /\ Len(drv.allProducts) <= Max(drv.maxProducts, 0) + 2
    /\ drv.pc \in {"saving", "done"} => Len(drv.allProducts) <= drv.maxProducts
    /\ (drv.pc \in {"saving", "done"} /\ drv.requested > 0) => StopCondition
    /\ drv.pc \in {"get", "backoff"} =>
          /\ drv.requested = drv.page
          /\ Len(drv.allProducts) < drv.maxProducts
          /\ drv.emptyRun < 2

\* C27: for every source, a scrape run raises a hard failure to its caller
\* if and only if it collected zero records across all its pages.
C27_HardFailureIffZero ==
    drv.pc = "done" => ((drv.outcome = "throw") <=> (Len(drv.allProducts) = 0))

(***************************************************************************)
(* Claims about the title inferencer (SpecTtl).                            *)
(***************************************************************************)
\* the leftmost lexeme of the title of one of the kinds, 0 if there is none
FirstOf(kinds) ==
    IF \A j \in 1..Len(title) : title[j].k \notin kinds THEN 0
    ELSE CHOOSE j \in 1..Len(title) :
            title[j].k \in kinds /\ \A h \in 1..Len(title) : title[h].k \in kinds => j <= h

\* the title without the lexemes the patterns of other attributes match
Only(kinds) == SelectSeq(title, LAMBDA t : t.k \in kinds \cup {"word"})

\* C28: extractSpecsFromTitle gives each attribute the value of the first
\* pattern of the attribute's own list that matches (storage: GB before TB;
\* connectivity: 5G before 4G/LTE), the same whether or not the patterns of
\* any other attribute match.
C28_FirstPatternWins ==
    tspecs # NotExtracted =>
        /\ tspecs.storage =
              IF FirstOf({"gb"}) # 0 THEN SpecValue(title[FirstOf({"gb"})].n, "GB")
              ELSE IF FirstOf({"tb"}) # 0 THEN SpecValue(title[FirstOf({"tb"})].n, "TB")
              ELSE Absent
        /\ tspecs.connectivity =
              IF FirstOf({"5g"}) # 0 THEN SpecValue(5, "G")
              ELSE IF FirstOf({"4g", "lte"}) # 0 THEN SpecValue(4, "G")
              ELSE Absent
        /\ tspecs.ram = extractSpecsFromTitle(Only({"ram"})).ram
        /\ tspecs.storage = extractSpecsFromTitle(Only({"gb", "tb"})).storage
        /\ tspecs.battery = extractSpecsFromTitle(Only({"mah"})).battery
        /\ tspecs.connectivity
              = extractSpecsFromTitle(Only({"5g", "4g", "lte"})).connectivity

(***************************************************************************)
(* Claims about the resolver as a whole and its failure paths (SpecEx).    *)
(***************************************************************************)
\* C31: smartExtract tries the selectors of the field in list order and
\* returns the result of the lowest-index selector whose extraction is valid;
\* when no selector of the list and no heal yields a valid result it returns
\* exactly the fallback value.
C31_LowestIndexWins ==
    [][\A i \in INST :
          /\ calls' # calls =>
                \A f \in FIELDS, valid \in Elements, big \in BOOLEAN :
                   SmartExtract(i, f, valid, big)
                   => LET list == SelectorsOf(inst[i].patterns, inst[i].platform, f)
                          k    == AcceptedIndex(list, valid)
                      IN  /\ k > 1 => /\ inst'[i].pc = "idle"
                                      /\ inst'[i].ret = Value(list[k])
                          /\ k = 1 => /\ inst'[i].pc = "uc_load"
                                      /\ inst'[i].sel = list[1]
                          /\ (k = 0 /\ inst'[i].pc = "idle") => inst'[i].ret = Fallback
          /\ (calls' = calls /\ inst[i].state = "live" /\ inst[i].pc # "idle"
                /\ inst'[i].pc = "idle")
             => /\ inst[i].pc \in {"uc_load", "uc_save"}
                      => inst'[i].ret = Value(inst[i].sel)
                /\ inst[i].pc \in {"heal_find", "heal_load", "heal_save"}
                      => inst'[i].ret = Fallback
                /\ inst[i].pc = "reload"
                      => /\ inst'[i].ret.k = "value"
                         /\ inst'[i].ret.selector \in inst[i].valid]_vars

\* on an element where the second and the third selector of the list both
\* extract a value, the call returned the value of the second
C31_Witness ==
    /\ lastCall = "lower"
    /\ inst[1].platform = "flipkart"
    /\ inst[1].patterns = InitialDoc
    /\ inst[1].pc = "idle"
    /\ inst[1].ret = Value("s2")

(***************************************************************************)
(* Claims about the quality score and the price of accepted records        *)
(* (SpecVal).                                                              *)
(***************************************************************************)
\* the sum of the penalties of the written rule for a record
PenaltySum(p) ==
      (IF isNull(p.rating) THEN 15 ELSE 0)
    + (IF p.review_count = Num(0) THEN 10 ELSE 0)
    + (IF Cardinality(p.specifications.keys) = 0 THEN 20 ELSE 0)
    + (IF Cardinality(p.specifications.keys) < 3 THEN 10 ELSE 0)
    + (IF p.discount_percent = Num(0) THEN 5 ELSE 0)
    + (IF p.image_url = NoImage THEN 10 ELSE 0)
    + (IF p.titleLen < 20 THEN 10 ELSE 0)

\* C32: calculateQualityScore returns max(0, 100 - P), P the sum of the
\* penalties that apply: 15 exactly when the rating is null (a rating of 0
\* is not penalized), 10 for a review count of 0, 20 for an empty
\* specification mapping, 10 for fewer than 3 entries, 5 for a discount of
\* 0, 10 for no image, 10 for a title shorter than 20 characters.
C32_QualityScore ==
    vout.k = "record" => vout.quality_score = Max(0, 100 - PenaltySum(vout.p))

\* C37: every record validateProduct accepts has current_price > 0, also
\* when the original price of the input is 0 or smaller than the current
\* price; validateProduct of an accepted record returns the same record.
C37_AcceptedPricePositive ==
    /\ vout.k = "record" =>
          (vout.p.current_price.k = "num" /\ vout.p.current_price.v > 0)
    /\ (vout.k = "record" /\ vagain # Pending) => vagain = vout

(***************************************************************************)
(* Claims about the in-memory registry of an instance (SpecEx).            *)
(***************************************************************************)
\* the field of the platform has been healed: a repaired list is persisted
Healed(pl, f) ==
    /\ store[pl].patterns[f] # NoEntry
    /\ store[pl].patterns[f].last_healed # NoTime

\* C38: after a heal has persisted a repaired selector list for a field,
\* every later smartExtract call of the instance for that field iterates
\* the repaired list, whether or not the healed primary selector extracted
\* a value on the element that triggered the heal.
C38_RepairedListIsIterated ==
    [][calls' # calls =>
       \A i \in INST, f \in FIELDS, valid \in Elements, big \in BOOLEAN :
          (SmartExtract(i, f, valid, big) /\ Healed(inst[i].platform, f)
              /\ ~inst[i].loading /\ inst[i].patterns # NoDoc)
          => SelectorsOf(inst[i].patterns, inst[i].platform, f)
               = store[inst[i].platform].patterns[f].selectors]_vars

\* C39: no smartExtract call of an instance runs before the registry load
\* started by its constructor has completed.
C39_LoadedBeforeFirstExtract ==
    [][calls' # calls =>
       \A i \in INST, f \in FIELDS, valid \in Elements, big \in BOOLEAN :
          SmartExtract(i, f, valid, big) => ~inst[i].loading]_vars


\* the size below which a source takes a body for a blocked page
MinSize(s) == IF s = "Flipkart" THEN minSizeFlipkart ELSE minSizeBase

\* the body contains a marker the source's isBlocked looks for
HasMarker(s, body) == IF s = "Flipkart" THEN captchaMarker(body) ELSE baseMarker(body)

\* the attempt went to the catch block: a retry after a backoff, or the empty
\* page on the last attempt
RetryPath(d, e) ==
    \/ e.pc = "backoff"
    \/ d.attempt = maxAttempts /\ e.lastPage # NoPage /\ e.lastPage.products = <<>>

\* C33: for every source a fetched body that contains a marker, whatever its
\* size, or that is shorter than the source's minimum size, is classified
\* blocked: no record is extracted from it and the attempt takes the retry
\* path.
C33_BlockedClassification ==
    [][\A resp \in Fetches :
          (scrapePage(resp) /\ resp.k = "body"
              /\ (HasMarker(drv.scraper, resp) \/ resp.len < MinSize(drv.scraper)))
          => RetryPath(drv, drv')]_vars

\* C34: in the persistence loop a failed upsert or history write of one
\* record does not end the run: when scrape returns its stats every collected
\* record has been passed to upsert, and at every moment scraped equals
\* new + updated and the number of upserts that succeeded.
C34_PersistenceLoop ==
    /\ drv.stats.scraped = drv.stats.new + drv.stats.updated
    /\ drv.stats.scraped = drv.upserted
    /\ drv.pc = "saving" => drv.next \in 1..Len(drv.allProducts)
    /\ drv.outcome = "stats" =>
          /\ drv.next = Len(drv.allProducts) + 1
          /\ drv.stats.scraped <= Len(drv.allProducts)

\* three records collected, the upsert of one of them failed, the run
\* returned stats that count the two others
C34_Witness ==
    /\ drv.outcome = "stats"
    /\ Len(drv.allProducts) = 3
    /\ drv.stats = [scraped |-> 2, new |-> 1, updated |-> 1]

\* C35: the pages of a run are requested one after the other, and between
\* the requests of two consecutive pages a random delay of delayMin up to
\* delayMax milliseconds is waited.
C35_SequentialPages ==
    [][drv'.requested # drv.requested =>
          /\ drv'.requested = drv.requested + 1
          /\ drv'.pc = "get"
          /\ drv.requested = 0 => drv.pc = "idle"
          /\ drv.requested > 0 =>
                /\ drv.pc = "delay"
                /\ drv.lastPage # NoPage
                /\ drv'.lastDelay >= delayMin
                /\ drv'.lastDelay < delayMax]_vars

\* the second page is being requested after a delay longer than delayMin
C35_Witness ==
    /\ drv.pc = "get"
    /\ drv.requested = 2
    /\ drv.lastDelay > delayMin


\* how far a smartExtract call is from its return
Rank(pc) ==
    CASE pc = "uc_load"   -> 1
      [] pc = "uc_save"   -> 2
      [] pc = "heal_find" -> 1
      [] pc = "heal_load" -> 2
      [] pc = "heal_save" -> 3
      [] pc = "reload"    -> 4
      [] pc = "idle"      -> 5

\* the step is one of the heal path of instance i that does not end the call
\* with an extracted value
FailedHealStep(i) ==
    /\ \/ calls' # calls /\ lastCall' \in {"heal", "sample"}
       \/ calls' = calls /\ inst[i].pc \in {"heal_find", "heal_load", "heal_save"}
                         /\ inst'[i].pc # inst[i].pc
    /\ inst'[i].pc = "idle" => inst'[i].ret = Fallback

InProgress(r) == req[r].pc \in {"set_running", "scrape", "set_completed", "set_failed"}

\* the runs of a platform that are in progress
RunsOf(p) == {r \in REQS : req[r].platform = p /\ InProgress(r)}

\* C40: at most one run per platform started through POST /scrape/:platform
\* is in progress at any time, and once the runs of a platform are over its
\* status entry no longer says 'running'.
C40_OneRunPerPlatform ==
    \A p \in AvailablePlatforms :
       /\ Cardinality(RunsOf(p)) <= 1
       /\ RunsOf(p) = {} => scraping[p] # "running"

====
